---------------------------- MODULE Spec2Model ----------------------------
(* A model of main.py of the postcards generator: the location-name         *)
(* heuristic (get_names, choose_name), the image geometry                   *)
(* (get_output_size, get_original_image), the font fitter (get_font), the   *)
(* colour decider (get_average_color, get_font_color) and the per-photo     *)
(* pipeline with its persistence (create_images, process_image, main).      *)
(*                                                                          *)
(* Text values are records [kind, chars] whose chars is the sequence of     *)
(* the text's characters, so that contains_digit reads characters as the    *)
(* code does; Python's None is the record of kind "none".                   *)
EXTENDS Integers, Sequences, FiniteSets, TLC

VARIABLES
    \* ---- get_names / choose_name ----
    locations,    \* the list handed to get_names (get_location + get_nearby_locations)
    missRaises,   \* the installed pycountry raises KeyError on a lookup miss (else returns None)
    run,          \* 1 or 2: the second run reads the same candidates in reverse order
    pos,          \* index of the next location get_names reads
    names,        \* the dict get_names builds and choose_name pops from
    input,        \* the dict as get_names returned it (the argument of choose_name)
    fieldIdx,     \* index into preference_list of the field choose_name evaluates next
    results,      \* results[r]: what run r of choose_name returned
    npc,          \* "build" | "choose" | "done" | "crashed" ("idle": not in use)
    \* ---- get_output_size / get_original_image ----
    srcW, srcH,   \* the size of the image file as opened
    orientation,  \* metadata["Orientation"]; 0 when the key is absent
    imgW, imgH,   \* the size of `original` as the function goes on
    canvasW, canvasH,  \* width, height as get_output_size returned them
    rpc,          \* "open" | "rotate" | "resize" | "done"
    \* ---- get_font ----
    wPer, hPer,   \* the text's measured width and height per point of font size
    fWidth, fHeight,   \* the width and height get_font is given
    font_size,    \* the loop variable of get_font
    fResult,      \* the size of the font returned; 0 until then
    fpc,          \* "scan" | "done"
    \* ---- get_average_color / get_font_color ----
    rgb,          \* the pixel the text section is reduced to
    average_color_metric,   \* the 4-tuple get_average_color returns, the mean kept as a sum of thirds
    text_primary, text_secondary,
    cpc,          \* "sample" | "decide" | "done"
    \* ---- main / process_image / create_images ----
    mode,         \* "batch": main with file_name "*"; "single": main with a file name;
                  \* "direct": a caller invokes process_image itself
    textArg,      \* the -t option ("default" when not given) or the text_location argument
    dbArg,        \* TRUE when a database (-b, or the db argument) is given
    entries,      \* the directory enumeration: entries[k] is f.is_file() of the k-th entry
    mpc,          \* "start" | "loop" | "photo" | "exit" | "crashed"
    entryIdx,     \* the entry the loop of main is at
    outindex,     \* i of main
    passed,       \* the entries handed to process_image, in call order
    reported,     \* the entries process_image printed "Failed: ..." for
    outcome,      \* per entry: how process_image ended, why, and the name chosen
    ppc,          \* where process_image is for the current photo
    metadata,     \* what get_metadata returned
    coords,       \* what get_coordinates returned
    photoLocs,    \* get_location(coords) + get_nearby_locations(coords)
    possible_names,
    name,         \* what choose_name returned
    coordsLeft,   \* the placements create_images has still to render
    loopI,        \* i of create_images
    conOpen,      \* process_image bound `con` (db is not None)
    source_id,    \* db.lastrowid after the insert of the source image
    store,        \* the database: rows committed, and rows pending in the open transaction
    files         \* the files saved under out/

nameVars == <<locations, missRaises, run, pos, names, input, fieldIdx, results, npc>>
resizeVars == <<srcW, srcH, orientation, imgW, imgH, canvasW, canvasH, rpc>>
fontVars == <<wPer, hPer, fWidth, fHeight, font_size, fResult, fpc>>
colorVars == <<rgb, average_color_metric, text_primary, text_secondary, cpc>>

cfgVars == <<mode, textArg, dbArg, entries>>
mainVars == <<mpc, entryIdx, outindex, passed>>
logVars == <<reported, outcome>>
photoVars == <<ppc, metadata, coords, photoLocs, possible_names, name,
               coordsLeft, loopI, conOpen, source_id>>
sinkVars == <<store, files>>
pipeVars == <<cfgVars, mainVars, logVars, photoVars, sinkVars>>

vars == <<nameVars, resizeVars, fontVars, colorVars, pipeVars>>

----------------------------------------------------------------------------
(* Texts                                                                    *)

Str(chars) == [kind |-> "str", chars |-> chars]
None == [kind |-> "none", chars |-> <<>>]
EmptyStr == Str(<<>>)

Digits == {"0", "1", "2", "3", "4", "5", "6", "7", "8", "9"}

\* main.py:114-116
contains_digit(text) == \E i \in 1..Len(text.chars) : text.chars[i] \in Digits

----------------------------------------------------------------------------
(* get_names                                                                *)

\* The keys of the dict `names`, in the order the dict literal lists them
\* (main.py:90-97), which is the order `for field in names` reads them.
names_fields ==
    <<"street", "adminArea6", "adminArea5", "adminArea4",
      "adminArea3", "adminArea2", "adminArea1", "name">>

Fields == {names_fields[i] : i \in 1..Len(names_fields)}

EmptyNames == [f \in Fields |-> {}]

\* pycountry's country table, restricted to the codes the model uses.
CountryCodes == {<<"G", "B">>, <<"U", "S">>}

CountryName(code) ==
    IF code = <<"G", "B">> THEN Str(<<"U", "K">>) ELSE Str(<<"U", "S", "A">>)

\* pycountry's subdivision table is keyed by "CC-SUB" codes.
SubdivisionCodes == {<<"G", "B", "-", "E", "N", "G">>, <<"U", "S", "-", "C", "A">>}

\* countries.get(alpha_2 = code): a Country object, or a miss.
countries_get(code) ==
    IF code.chars \in CountryCodes
    THEN [kind |-> "country", alpha_2 |-> code.chars, name |-> CountryName(code.chars)]
    ELSE [kind |-> "miss", alpha_2 |-> <<>>, name |-> None]

\* "{0}".format(x) of what countries.get returned: a Country object formats as
\* its repr, Country(alpha_2='GB', ...), and None as "None"; neither is the
\* alpha-2 code itself.
FormatCountry(c) ==
    IF c.kind = "country"
    THEN <<"C", "o", "u", "n", "t", "r", "y", "(">> \o c.alpha_2 \o <<")">>
    ELSE <<"N", "o", "n", "e">>

\* The code handed to subdivisions.get at main.py:105-108.
SubdivisionKey(c, sub) == FormatCountry(c) \o <<"-">> \o sub.chars

\* One (location, field) iteration of get_names, main.py:101-110.
\* Result: [ok |-> FALSE] when the iteration raises, else the updated dict.
AddField(nm, location, field, raises) ==
    IF ~(field \in DOMAIN location /\ location[field] # EmptyStr)
    THEN [ok |-> TRUE, names |-> nm]
    ELSE IF field = "adminArea1"
    THEN LET c == countries_get(location[field]) IN
         \* a miss raises KeyError, or returns None whose .name raises AttributeError
         IF c.kind = "miss"
         THEN [ok |-> FALSE, names |-> nm]
         ELSE [ok |-> TRUE, names |-> [nm EXCEPT ![field] = @ \cup {c.name}]]
    ELSE IF field = "adminArea3"
    THEN IF "adminArea1" \notin DOMAIN location
         THEN [ok |-> FALSE, names |-> nm]      \* location["adminArea1"]: KeyError
         ELSE LET c == countries_get(location["adminArea1"]) IN
              IF c.kind = "miss" /\ raises
              THEN [ok |-> FALSE, names |-> nm]
              ELSE IF SubdivisionKey(c, location[field]) \in SubdivisionCodes
              THEN [ok |-> TRUE,
                    names |-> [nm EXCEPT ![field] =
                                 @ \cup {Str(SubdivisionKey(c, location[field]))}]]
              ELSE IF raises
              THEN [ok |-> FALSE, names |-> nm]
              ELSE [ok |-> TRUE, names |-> [nm EXCEPT ![field] = @ \cup {None}]]
    ELSE [ok |-> TRUE, names |-> [nm EXCEPT ![field] = @ \cup {location[field]}]]

RECURSIVE AddFieldsFrom(_, _, _, _)
\* The inner loop `for field in names` for one location, main.py:100-110.
AddFieldsFrom(nm, location, i, raises) ==
    IF i > Len(names_fields)
    THEN [ok |-> TRUE, names |-> nm]
    ELSE LET r == AddField(nm, location, names_fields[i], raises) IN
         IF r.ok THEN AddFieldsFrom(r.names, location, i + 1, raises) ELSE r

RECURSIVE get_names_from(_, _, _, _)
\* get_names as a whole (main.py:88-112), from location i on.
get_names_from(nm, locs, i, raises) ==
    IF i > Len(locs)
    THEN [ok |-> TRUE, names |-> nm]
    ELSE LET r == AddFieldsFrom(nm, locs[i], 1, raises) IN
         IF r.ok THEN get_names_from(r.names, locs, i + 1, raises) ELSE r

get_names(locs, raises) == get_names_from(EmptyNames, locs, 1, raises)

----------------------------------------------------------------------------
(* choose_name                                                              *)

\* main.py:120
preference_list ==
    <<"name", "street", "adminArea6", "adminArea5", "adminArea3", "adminArea4", "adminArea1">>

\* The ambiguity threshold of main.py:123: a field is read only when its set
\* has fewer values than this.
AmbiguityThreshold == 3

ChooseIterLoose(nm, field) ==
    IF nm[field] # {} /\ Cardinality(nm[field]) <= AmbiguityThreshold
    THEN { [names |-> [nm EXCEPT ![field] = @ \ {tmp}],
            returned |-> ~(field = "street" /\ contains_digit(tmp)),
            value |-> tmp] : tmp \in nm[field] }
    ELSE { [names |-> nm, returned |-> FALSE, value |-> None] }

\* One iteration of the loop of choose_name, main.py:121-129: the outcomes it
\* can have. set.pop() removes and returns an arbitrary element.
ChooseIter(nm, field) ==
    IF nm[field] # {} /\ Cardinality(nm[field]) < AmbiguityThreshold
    THEN { [names |-> [nm EXCEPT ![field] = @ \ {tmp}],
            returned |-> ~(field = "street" /\ contains_digit(tmp)),
            value |-> tmp] : tmp \in nm[field] }
    ELSE { [names |-> nm, returned |-> FALSE, value |-> None] }

RECURSIVE choose_name_from(_, _)
\* The values choose_name can return from field i on; falling off the end of
\* the loop returns None (main.py:118-129).
choose_name_from(nm, i) ==
    IF i > Len(preference_list)
    THEN {None}
    ELSE UNION { IF o.returned THEN {o.value} ELSE choose_name_from(o.names, i + 1) :
                 o \in ChooseIter(nm, preference_list[i]) }

choose_name(nm) == choose_name_from(nm, 1)


----------------------------------------------------------------------------
(* The name heuristic as a state machine                                    *)

\* The marker of a result not yet produced.
Unset == [kind |-> "unset", chars |-> <<>>]

\* How many of the sample texts a field's candidate set is drawn from.
MaxVals == 3

\* How many locations the geocoder's answer holds at most.
MaxLocations == 3

NameTexts ==
    <<Str(<<"B", "e", "n">>), Str(<<"T", "o", "w">>),
      Str(<<"A", "b", "y">>), Str(<<"K", "e", "w">>), Str(<<"E", "y", "e">>)>>

StreetTexts ==
    <<Str(<<"1", "2", " ", "H", "i">>), Str(<<"H", "i", "g", "h">>),
      Str(<<"M", "a", "l", "l">>), Str(<<"A", "v", " ", "5">>), Str(<<"B", "a", "y">>)>>

AreaTexts ==
    <<Str(<<"S", "o", "h", "o">>), Str(<<"C", "i", "t", "y">>),
      Str(<<"B", "o", "w">>), Str(<<"O", "v", "a", "l">>), Str(<<"K", "e", "n">>)>>

Prefix(texts, n) == {texts[i] : i \in 1..(IF n < Len(texts) THEN n ELSE Len(texts))}

\* The candidate sets choose_name is tried on: every combination of subsets
\* of the sample texts for name, street and adminArea6, and an empty or
\* one-valued set for each other field.
NameCandidateSets ==
    { [f \in Fields |->
         CASE f = "name" -> n
           [] f = "street" -> s
           [] f = "adminArea6" -> a
           [] OTHER -> IF f \in rest THEN {Str(<<"L", "o", "n">>)} ELSE {}] :
      n \in SUBSET Prefix(NameTexts, MaxVals),
      s \in SUBSET Prefix(StreetTexts, MaxVals),
      a \in SUBSET Prefix(AreaTexts, MaxVals),
      rest \in SUBSET {"adminArea5", "adminArea3", "adminArea4", "adminArea1"} }

GB == Str(<<"G", "B">>)
ZZ == Str(<<"Z", "Z">>)
ENG == Str(<<"E", "N", "G">>)

\* Location records as the geocoder returns them: a field is absent, empty
\* or a text; adminArea1 is a country code and adminArea3 a subdivision code.
SampleLocations ==
    { ("street" :> StreetTexts[1]) @@ ("adminArea5" :> AreaTexts[2])
        @@ ("adminArea3" :> ENG) @@ ("adminArea1" :> GB),
      ("street" :> StreetTexts[2]) @@ ("adminArea5" :> AreaTexts[2]) @@ ("adminArea1" :> GB),
      ("name" :> NameTexts[1]),
      ("name" :> NameTexts[2]),
      ("name" :> NameTexts[3]) @@ ("street" :> EmptyStr),
      ("adminArea1" :> ZZ) @@ ("adminArea5" :> AreaTexts[3]),
      ("adminArea3" :> ENG),
      ("adminArea6" :> AreaTexts[1]) @@ ("adminArea4" :> AreaTexts[4])
        @@ ("adminArea2" :> AreaTexts[5]),
      ("street" :> StreetTexts[3]),
      ("adminArea3" :> ENG) @@ ("adminArea1" :> ZZ) }

LocationLists == UNION { [1..n -> SampleLocations] : n \in 0..MaxLocations }

Reverse(s) == [i \in 1..Len(s) |-> s[Len(s) + 1 - i]]

\* The list run r reads: the second run gets the same candidates reversed.
RunLocations == IF run = 1 THEN locations ELSE Reverse(locations)

\* choose_name on every candidate set.
ChooseStart ==
    /\ locations = <<>>
    /\ run = 1
    /\ pos = 1
    /\ input \in NameCandidateSets
    /\ names = input
    /\ fieldIdx = 1
    /\ results = <<Unset, Unset>>
    /\ npc = "choose"

\* get_names, then choose_name, on every list of sample locations.
NamesStart ==
    /\ locations \in LocationLists
    /\ run = 1
    /\ pos = 1
    /\ input = EmptyNames
    /\ names = EmptyNames
    /\ fieldIdx = 1
    /\ results = <<Unset, Unset>>
    /\ npc = "build"

\* get_names reads one location (main.py:99-110); a lookup that raises ends it.
AddLocation ==
    /\ npc = "build"
    /\ pos <= Len(RunLocations)
    /\ LET r == AddFieldsFrom(names, RunLocations[pos], 1, missRaises) IN
       IF r.ok
       THEN /\ names' = r.names
            /\ pos' = pos + 1
            /\ npc' = npc
       ELSE /\ npc' = "crashed"
            /\ UNCHANGED <<names, pos>>
    /\ UNCHANGED <<locations, missRaises, run, input, fieldIdx, results>>
    /\ UNCHANGED <<resizeVars, fontVars, colorVars, pipeVars>>

\* get_names returns the dict (main.py:112) and choose_name starts on it.
GetNamesReturn ==
    /\ npc = "build"
    /\ pos > Len(RunLocations)
    /\ input' = names
    /\ fieldIdx' = 1
    /\ npc' = "choose"
    /\ UNCHANGED <<locations, missRaises, run, pos, names, results>>
    /\ UNCHANGED <<resizeVars, fontVars, colorVars, pipeVars>>

\* choose_name evaluates one field of preference_list (main.py:121-129).
ChooseField ==
    /\ npc = "choose"
    /\ fieldIdx <= Len(preference_list)
    /\ \E o \in ChooseIter(names, preference_list[fieldIdx]) :
         /\ names' = o.names
         /\ IF o.returned
            THEN /\ results' = [results EXCEPT ![run] = o.value]
                 /\ npc' = "done"
                 /\ fieldIdx' = fieldIdx
            ELSE /\ fieldIdx' = fieldIdx + 1
                 /\ UNCHANGED <<results, npc>>
    /\ UNCHANGED <<locations, missRaises, run, pos, input>>
    /\ UNCHANGED <<resizeVars, fontVars, colorVars, pipeVars>>

\* The loop of choose_name ends without a return: the function returns None.
ChooseFallOff ==
    /\ npc = "choose"
    /\ fieldIdx > Len(preference_list)
    /\ results' = [results EXCEPT ![run] = None]
    /\ npc' = "done"
    /\ UNCHANGED <<locations, missRaises, run, pos, names, input, fieldIdx>>
    /\ UNCHANGED <<resizeVars, fontVars, colorVars, pipeVars>>

\* A second run of get_names and choose_name on the same candidates.
SecondRun ==
    /\ npc = "done"
    /\ run = 1
    /\ run' = 2
    /\ pos' = 1
    /\ names' = EmptyNames
    /\ input' = EmptyNames
    /\ fieldIdx' = 1
    /\ npc' = "build"
    /\ UNCHANGED <<locations, missRaises, results>>
    /\ UNCHANGED <<resizeVars, fontVars, colorVars, pipeVars>>

\* The name heuristic is not in use.
NamesIdle ==
    /\ locations = <<>>
    /\ run = 1
    /\ pos = 1
    /\ names = EmptyNames
    /\ input = EmptyNames
    /\ fieldIdx = 1
    /\ results = <<Unset, Unset>>
    /\ npc = "idle"

----------------------------------------------------------------------------
(* get_output_size and get_original_image                                   *)

\* The two sides of the target canvas, main.py:134 and main.py:136.
CanvasShort == 1200
CanvasLong == 1800

\* Source image sides are multiples of DimStep, up to MaxDimSteps of them.
DimStep == 500
MaxDimSteps == 8

\* The EXIF Orientation values tried; 0 stands for a record without the key.
Orientations == {0, 1, 3, 6, 8}

\* main.py:131-136
get_output_size(w, h) ==
    IF w < h THEN <<CanvasShort, CanvasLong>> ELSE <<CanvasLong, CanvasShort>>

\* Image.rotate(angle, expand = True) for the three angles of main.py:147-153:
\* a quarter turn swaps the sides, a half turn keeps them.
RotatedSize(w, h, o) ==
    IF o = 6 \/ o = 8 THEN <<h, w>> ELSE <<w, h>>

\* Python's round() of the quotient num / den: to the nearest integer, a tie
\* to the even one.
Round(num, den) ==
    LET q == num \div den
        r == num % den
    IN  IF 2 * r < den THEN q
        ELSE IF 2 * r > den THEN q + 1
        ELSE IF q % 2 = 0 THEN q ELSE q + 1

\* The size handed to original.resize, main.py:156-159.
ResizedSize(w, h, width, height) ==
    IF w > h
    THEN <<width, Round(width * h, w)>>
    ELSE <<Round(height * w, h), height>>

ResizeStart ==
    /\ srcW \in {DimStep * k : k \in 1..MaxDimSteps}
    /\ srcH \in {DimStep * k : k \in 1..MaxDimSteps}
    /\ orientation \in Orientations
    /\ imgW = srcW
    /\ imgH = srcH
    /\ canvasW = 0
    /\ canvasH = 0
    /\ rpc = "open"

ResizeIdle ==
    /\ srcW = 0 /\ srcH = 0 /\ orientation = 0
    /\ imgW = 0 /\ imgH = 0 /\ canvasW = 0 /\ canvasH = 0
    /\ rpc = "idle"

\* main.py:144: the canvas is chosen from the image as opened.
GetOutputSize ==
    /\ rpc = "open"
    /\ canvasW' = get_output_size(imgW, imgH)[1]
    /\ canvasH' = get_output_size(imgW, imgH)[2]
    /\ rpc' = "rotate"
    /\ UNCHANGED <<srcW, srcH, orientation, imgW, imgH>>
    /\ UNCHANGED <<nameVars, fontVars, colorVars, pipeVars>>

\* main.py:147-153
Rotate ==
    /\ rpc = "rotate"
    /\ imgW' = RotatedSize(imgW, imgH, orientation)[1]
    /\ imgH' = RotatedSize(imgW, imgH, orientation)[2]
    /\ rpc' = "resize"
    /\ UNCHANGED <<srcW, srcH, orientation, canvasW, canvasH>>
    /\ UNCHANGED <<nameVars, fontVars, colorVars, pipeVars>>

\* main.py:156-161
Resize ==
    /\ rpc = "resize"
    /\ imgW' = ResizedSize(imgW, imgH, canvasW, canvasH)[1]
    /\ imgH' = ResizedSize(imgW, imgH, canvasW, canvasH)[2]
    /\ rpc' = "done"
    /\ UNCHANGED <<srcW, srcH, orientation, canvasW, canvasH>>
    /\ UNCHANGED <<nameVars, fontVars, colorVars, pipeVars>>

----------------------------------------------------------------------------
(* get_font                                                                 *)

\* range(20, 150) of main.py:190 and the back-off of main.py:199.
MinSize == 20
MaxSize == 150
BackOff == 10

\* text_coords of main.py:252: x and y are both 10.
TextCoord == 10

\* The measured width per point of size goes up to MaxWPer, the height up to
\* MaxHPer.
MaxWPer == 12
MaxHPer == 2

\* font.getsize(text) at a size (main.py:194): the measure of a text grows
\* with the size; wPer and hPer stand for the text and the typeface.
TextWidth(size) == wPer * size
TextHeight(size) == hPer * size

\* est_text_width > available_width and est_text_height < available_height,
\* main.py:192-197, with available = .8 * (side - 2 * coord) kept in tenths.
EarlyExit(size) ==
    /\ 10 * TextWidth(size) > 8 * (fWidth - TextCoord * 2)
    /\ 10 * TextHeight(size) < 8 * (fHeight - TextCoord * 2)

\* The condition of main.py:196-198.
StopHere(size) == EarlyExit(size) \/ size = MaxSize - 1

ReturnedSizeNoBackOff(size) == size

\* The size of the font returned at main.py:199.
ReturnedSize(size) == size - BackOff

FontStart ==
    /\ wPer \in 0..MaxWPer
    /\ hPer \in 1..MaxHPer
    /\ fWidth \in {120, 520, 1200, 1800}
    /\ fHeight \in {60, 220, 1200, 1800}
    /\ font_size = MinSize
    /\ fResult = 0
    /\ fpc = "scan"

FontIdle ==
    /\ wPer = 0 /\ hPer = 0 /\ fWidth = 0 /\ fHeight = 0
    /\ font_size = 0 /\ fResult = 0
    /\ fpc = "idle"

\* One iteration of the loop of get_font that does not return.
FontNext ==
    /\ fpc = "scan"
    /\ font_size < MaxSize
    /\ ~StopHere(font_size)
    /\ font_size' = font_size + 1
    /\ UNCHANGED <<wPer, hPer, fWidth, fHeight, fResult, fpc>>
    /\ UNCHANGED <<nameVars, resizeVars, colorVars, pipeVars>>

\* The iteration that returns (main.py:196-199).
FontReturn ==
    /\ fpc = "scan"
    /\ font_size < MaxSize
    /\ StopHere(font_size)
    /\ fResult' = ReturnedSize(font_size)
    /\ fpc' = "done"
    /\ UNCHANGED <<wPer, hPer, fWidth, fHeight, font_size>>
    /\ UNCHANGED <<nameVars, resizeVars, colorVars, pipeVars>>

----------------------------------------------------------------------------
(* get_average_color and get_font_color                                     *)

\* The threshold of main.py:181.
DarkBelow == 128

\* Channel values tried: 0, 255 and those within ChanSpread of the threshold.
ChanSpread == 2

Channels == {0, 255} \cup ((DarkBelow - ChanSpread)..(DarkBelow + ChanSpread))

White == <<255, 255, 255>>
Black == <<0, 0, 0>>

\* main.py:175-177. sum(rgb) / 3 is kept as its numerator over 3, so the mean
\* is exact: the 4th component is three times the metric.
get_average_color(pixel) ==
    <<pixel[1], pixel[2], pixel[3], pixel[1] + pixel[2] + pixel[3]>>

get_font_color_inclusive(metric) ==
    IF metric[4] <= 3 * DarkBelow
    THEN <<White, <<metric[1], metric[2], metric[3]>>>>
    ELSE <<Black, <<metric[1], metric[2], metric[3]>>>>

\* main.py:179-184: average_color_metric[3] < 128, on the sum of thirds.
get_font_color(metric) ==
    IF metric[4] < 3 * DarkBelow
    THEN <<White, <<metric[1], metric[2], metric[3]>>>>
    ELSE <<Black, <<metric[1], metric[2], metric[3]>>>>

ColorStart ==
    /\ rgb \in Channels \X Channels \X Channels
    /\ average_color_metric = <<0, 0, 0, 0>>
    /\ text_primary = <<>>
    /\ text_secondary = <<>>
    /\ cpc = "sample"

ColorIdle ==
    /\ rgb = <<0, 0, 0>>
    /\ average_color_metric = <<0, 0, 0, 0>>
    /\ text_primary = <<>>
    /\ text_secondary = <<>>
    /\ cpc = "idle"

\* main.py:212
GetAverageColor ==
    /\ cpc = "sample"
    /\ average_color_metric' = get_average_color(rgb)
    /\ cpc' = "decide"
    /\ UNCHANGED <<rgb, text_primary, text_secondary>>
    /\ UNCHANGED <<nameVars, resizeVars, fontVars, pipeVars>>

\* main.py:213
GetFontColor ==
    /\ cpc = "decide"
    /\ text_primary' = get_font_color(average_color_metric)[1]
    /\ text_secondary' = get_font_color(average_color_metric)[2]
    /\ cpc' = "done"
    /\ UNCHANGED <<rgb, average_color_metric>>
    /\ UNCHANGED <<nameVars, resizeVars, fontVars, pipeVars>>

----------------------------------------------------------------------------
(* get_coordinates                                                          *)

\* GPSInfo records: each of latitude and longitude is three (numerator,
\* denominator) pairs, with a hemisphere reference.
GpsLondon ==
    [GPSLatitude |-> <<<<51, 1>>, <<30, 1>>, <<2664, 100>>>>, GPSLatitudeRef |-> "N",
     GPSLongitude |-> <<<<0, 1>>, <<7, 1>>, <<4008, 100>>>>, GPSLongitudeRef |-> "W"]

GpsZeroDenominator ==
    [GPSLatitude |-> <<<<51, 1>>, <<30, 1>>, <<26, 0>>>>, GPSLatitudeRef |-> "N",
     GPSLongitude |-> <<<<0, 1>>, <<7, 1>>, <<40, 1>>>>, GPSLongitudeRef |-> "W"]

\* What get_metadata returns (main.py:15-38): None, or a dict that has the
\* key GPSInfo or has not.
NoMetadata == [kind |-> "none", gps |-> <<>>]
MetadataWithoutGps == [kind |-> "dict", gps |-> <<>>]
MetadataWith(g) == [kind |-> "dict", gps |-> <<g>>]

SampleMetadata ==
    {NoMetadata, MetadataWithoutGps, MetadataWith(GpsLondon), MetadataWith(GpsZeroDenominator)}

HasGps(md) == md.kind = "dict" /\ md.gps # <<>>

\* deg + min / 60 + sec / 3600 of main.py:47-52 as the fraction <<num, den>>.
Dms(t) ==
    <<t[1][1] * t[2][2] * t[3][2] * 3600 + t[2][1] * t[1][2] * t[3][2] * 60
        + t[3][1] * t[1][2] * t[2][2],
      t[1][2] * t[2][2] * t[3][2] * 3600>>

ZeroDenominator(t) == \E i \in 1..3 : t[i][2] = 0

\* main.py:40-59, for metadata that has GPSInfo. A zero denominator raises
\* ZeroDivisionError: [ok |-> FALSE].
get_coordinates(md) ==
    LET g == md.gps[1] IN
    IF ZeroDenominator(g.GPSLatitude) \/ ZeroDenominator(g.GPSLongitude)
    THEN [ok |-> FALSE, latitude |-> <<0, 1>>, longitude |-> <<0, 1>>]
    ELSE [ok |-> TRUE,
          latitude |-> IF g.GPSLatitudeRef # "N"
                       THEN <<-Dms(g.GPSLatitude)[1], Dms(g.GPSLatitude)[2]>>
                       ELSE Dms(g.GPSLatitude),
          longitude |-> IF g.GPSLongitudeRef # "E"
                        THEN <<-Dms(g.GPSLongitude)[1], Dms(g.GPSLongitude)[2]>>
                        ELSE Dms(g.GPSLongitude)]

NoCoords == [ok |-> FALSE, latitude |-> <<0, 1>>, longitude |-> <<0, 1>>]

----------------------------------------------------------------------------
(* The persistence sink                                                     *)

EmptyStore == [committed |-> {}, pending |-> {}]

db_execute_autocommit(db, row) == [db EXCEPT !.committed = @ \cup {row}]

\* db.execute("INSERT ...") on the cursor of the photo's connection
\* (main.py:258, 270): the row joins the connection's open transaction.
db_execute(db, row) == [db EXCEPT !.pending = @ \cup {row}]

\* con.commit(), main.py:288.
db_commit(db) == [committed |-> db.committed \cup db.pending, pending |-> {}]

\* The rowid the next insert into source_images gets, which db.lastrowid
\* then reads (main.py:259): one more than the rows the connection sees.
NextRowId(db) ==
    Cardinality({r \in db.committed \cup db.pending : r.table = "source_images"}) + 1

\* A row of source_images: the encoded image of photo k.
SourceRow(k, id) ==
    [table |-> "source_images", id |-> id, photo |-> k, name |-> <<>>,
     text_alignment |-> "", source_image_id |-> 0]

\* A row of postcards (main.py:270-271); its image is rendered from photo k.
PostcardRow(k, outname, tag, id) ==
    [table |-> "postcards", id |-> 0, photo |-> k, name |-> outname,
     text_alignment |-> tag, source_image_id |-> id]

\* The keys of the dict get_text_locations returns, in its order
\* (main.py:226-242); the anchors themselves play no part in what is stored.
get_text_locations(id) ==
    IF id \in {"NW", "NE", "SW", "SE"} THEN <<id>> ELSE <<"NW", "NE", "SW", "SE">>

----------------------------------------------------------------------------
(* main, process_image and create_images                                    *)

\* How many entries the directory holds at most.
MaxFiles == 2

TextChoices == {"NW", "NE", "SW", "SE", "*"}

\* What the geocoder answers for a photo.
SampleAnswers ==
    { <<>>,
      <<("name" :> NameTexts[1])>>,
      <<("street" :> StreetTexts[1])>>,
      <<("street" :> StreetTexts[1]) @@ ("adminArea5" :> AreaTexts[2])
          @@ ("adminArea3" :> ENG) @@ ("adminArea1" :> GB)>>,
      <<("name" :> NameTexts[1]), ("name" :> NameTexts[2])>>,
      <<("adminArea1" :> ZZ)>> }

\* text_location as process_image gets it: main passes
\* args.text_location[0], which is the first character "N" of the default
\* "NW" when -t is not given (main.py:297, 324).
TextLocation ==
    IF textArg = "default" THEN "N" ELSE textArg

\* The record kept of one call of process_image: status is "none",
\* "running", "returned" or "raised"; cause is the first thing that went
\* wrong in it ("none" when nothing did); name is what choose_name returned.
NoOutcome == [status |-> "none", cause |-> "none", name |-> Unset]

PhotoIdle ==
    /\ ppc = "idle"
    /\ metadata = NoMetadata
    /\ coords = NoCoords
    /\ photoLocs = <<>>
    /\ possible_names = EmptyNames
    /\ name = Unset
    /\ coordsLeft = <<>>
    /\ loopI = 0
    /\ conOpen = FALSE
    /\ source_id = 0

PipeIdle ==
    /\ mode = "idle" /\ textArg = "default" /\ dbArg = FALSE /\ entries = <<>>
    /\ mpc = "idle" /\ entryIdx = 1 /\ outindex = 0 /\ passed = <<>>
    /\ reported = {} /\ outcome = <<>>
    /\ PhotoIdle
    /\ store = EmptyStore /\ files = {}

PipeStart ==
    /\ mode \in {"batch", "single", "direct"}
    /\ textArg \in TextChoices \cup {"default"}
    /\ mode = "direct" => textArg # "default"
    /\ dbArg \in BOOLEAN
    /\ IF mode = "batch"
       THEN entries \in UNION { [1..n -> BOOLEAN] : n \in 0..MaxFiles }
       ELSE entries = <<TRUE>>
    /\ mpc = "start" /\ entryIdx = 1 /\ outindex = 0 /\ passed = <<>>
    /\ reported = {}
    /\ outcome = [k \in 1..Len(entries) |-> NoOutcome]
    /\ PhotoIdle
    /\ store = EmptyStore /\ files = {}

\* process_image is entered for the entry at entryIdx.
Enter ==
    /\ passed' = Append(passed, entryIdx)
    /\ mpc' = "photo"
    /\ ppc' = "metadata"
    /\ outcome' = [outcome EXCEPT ![entryIdx].status = "running"]
    /\ UNCHANGED <<entryIdx, outindex, reported>>
    /\ UNCHANGED <<metadata, coords, photoLocs, possible_names, name,
                   coordsLeft, loopI, conOpen, source_id>>

\* An exception leaves process_image: nothing catches it (main.py:314-325),
\* so the interpreter ends; the open transaction is never committed.
Raise(cause) ==
    /\ mpc' = "crashed"
    /\ ppc' = "idle"
    /\ outcome' = [outcome EXCEPT ![entryIdx].status = "raised",
                                  ![entryIdx].cause = IF @ = "none" THEN cause ELSE @]
    /\ UNCHANGED <<entryIdx, outindex, passed, reported>>

\* process_image returns to its caller; the loop of main goes on to the
\* next entry (main.py:324-325).
Return(cause) ==
    /\ mpc' = IF mode = "batch" THEN "loop" ELSE "exit"
    /\ entryIdx' = entryIdx + 1
    /\ outindex' = outindex + 1
    /\ ppc' = "idle"
    /\ outcome' = [outcome EXCEPT ![entryIdx].status = "returned",
                                  ![entryIdx].cause = IF @ = "none" THEN cause ELSE @]
    /\ metadata' = NoMetadata
    /\ coords' = NoCoords
    /\ photoLocs' = <<>>
    /\ possible_names' = EmptyNames
    /\ name' = Unset
    /\ coordsLeft' = <<>>
    /\ loopI' = 0
    /\ conOpen' = FALSE
    /\ source_id' = 0
    /\ UNCHANGED passed

\* main.py:315-321. With a file name, main reads args.filename, an attribute
\* the parser never sets (its dest is file_name): AttributeError.
MainStart ==
    /\ mpc = "start"
    /\ mode \in {"batch", "single"}
    /\ IF mode = "single"
       THEN /\ Raise("args")
            /\ UNCHANGED <<metadata, coords, photoLocs, possible_names, name,
                           coordsLeft, loopI, conOpen, source_id>>
       ELSE /\ mpc' = "loop"
            /\ UNCHANGED <<entryIdx, outindex, passed, logVars, photoVars>>
    /\ UNCHANGED <<cfgVars, sinkVars>>
    /\ UNCHANGED <<nameVars, resizeVars, fontVars, colorVars>>

\* A caller invokes process_image(filename, 0, text_location, db) itself.
CallDirect ==
    /\ mpc = "start"
    /\ mode = "direct"
    /\ Enter
    /\ UNCHANGED <<cfgVars, sinkVars>>
    /\ UNCHANGED <<nameVars, resizeVars, fontVars, colorVars>>

\* One iteration of the loop of main, main.py:322-324, up to the call.
\* args.database[0] raises TypeError when -b was not given.
NextEntry ==
    /\ mpc = "loop"
    /\ entryIdx <= Len(entries)
    /\ IF ~entries[entryIdx]
       THEN /\ entryIdx' = entryIdx + 1
            /\ UNCHANGED <<mpc, outindex, passed, logVars, photoVars>>
       ELSE IF ~dbArg
       THEN /\ Raise("args")
            /\ UNCHANGED <<metadata, coords, photoLocs, possible_names, name,
                           coordsLeft, loopI, conOpen, source_id>>
       ELSE Enter
    /\ UNCHANGED <<cfgVars, sinkVars>>
    /\ UNCHANGED <<nameVars, resizeVars, fontVars, colorVars>>

\* The enumeration is exhausted: main returns.
MainExit ==
    /\ mpc = "loop"
    /\ entryIdx > Len(entries)
    /\ mpc' = "exit"
    /\ UNCHANGED <<entryIdx, outindex, passed, logVars, photoVars>>
    /\ UNCHANGED <<cfgVars, sinkVars>>
    /\ UNCHANGED <<nameVars, resizeVars, fontVars, colorVars>>

\* main.py:276-282
GetMetadata ==
    /\ mpc = "photo" /\ ppc = "metadata"
    /\ \E md \in SampleMetadata :
         IF ~HasGps(md)
         THEN /\ reported' = reported \cup {entryIdx}
              /\ Return("no_gps")
         ELSE /\ metadata' = md
              /\ conOpen' = dbArg
              /\ ppc' = "coords"
              /\ UNCHANGED <<mainVars, logVars, coords, photoLocs, possible_names,
                             name, coordsLeft, loopI, source_id>>
    /\ UNCHANGED <<cfgVars, sinkVars>>
    /\ UNCHANGED <<nameVars, resizeVars, fontVars, colorVars>>

\* main.py:284
GetCoordinates ==
    /\ mpc = "photo" /\ ppc = "coords"
    /\ IF get_coordinates(metadata).ok
       THEN /\ coords' = get_coordinates(metadata)
            /\ ppc' = "geocode"
            /\ UNCHANGED <<mainVars, logVars>>
       ELSE /\ Raise("zero_denominator")
            /\ UNCHANGED coords
    /\ UNCHANGED <<metadata, photoLocs, possible_names, name, coordsLeft, loopI,
                   conOpen, source_id>>
    /\ UNCHANGED <<cfgVars, sinkVars>>
    /\ UNCHANGED <<nameVars, resizeVars, fontVars, colorVars>>

\* get_location(coords) + get_nearby_locations(coords), main.py:285 and
\* 61-86: the service answers, or the request or the parsing of its answer
\* raises.
Geocode ==
    /\ mpc = "photo" /\ ppc = "geocode"
    /\ \/ /\ Raise("geocoding")
          /\ UNCHANGED photoLocs
       \/ \E answer \in SampleAnswers :
            /\ photoLocs' = answer
            /\ ppc' = "names"
            /\ UNCHANGED <<mainVars, logVars>>
    /\ UNCHANGED <<metadata, coords, possible_names, name, coordsLeft, loopI,
                   conOpen, source_id>>
    /\ UNCHANGED <<cfgVars, sinkVars>>
    /\ UNCHANGED <<nameVars, resizeVars, fontVars, colorVars>>

\* get_names(...), main.py:285
GetNames ==
    /\ mpc = "photo" /\ ppc = "names"
    /\ IF get_names(photoLocs, missRaises).ok
       THEN /\ possible_names' = get_names(photoLocs, missRaises).names
            /\ ppc' = "choose"
            /\ UNCHANGED <<mainVars, logVars>>
       ELSE /\ Raise("lookup")
            /\ UNCHANGED possible_names
    /\ UNCHANGED <<metadata, coords, photoLocs, name, coordsLeft, loopI,
                   conOpen, source_id>>
    /\ UNCHANGED <<cfgVars, sinkVars>>
    /\ UNCHANGED <<nameVars, resizeVars, fontVars, colorVars>>

\* name = choose_name(possible_names), main.py:286
ChooseName ==
    /\ mpc = "photo" /\ ppc = "choose"
    /\ \E n \in choose_name(possible_names) :
         /\ name' = n
         /\ outcome' = [outcome EXCEPT ![entryIdx].name = n]
    /\ ppc' = "create"
    /\ UNCHANGED <<mainVars, reported>>
    /\ UNCHANGED <<metadata, coords, photoLocs, possible_names, coordsLeft, loopI,
                   conOpen, source_id>>
    /\ UNCHANGED <<cfgVars, sinkVars>>
    /\ UNCHANGED <<nameVars, resizeVars, fontVars, colorVars>>

\* create_images up to its loop, main.py:246-261.
\*  - get_original_image returns None when the file does not open; the
\*    unpacking raises, the except returns None, and process_image goes on
\*    to con.commit().
\*  - with name None, font.getsize(None) in get_font raises in the
\*    installed Pillow, or it does not and the run reaches name.upper().
\*  - db.execute is called whether or not db is None.
CreateImages ==
    /\ mpc = "photo" /\ ppc = "create"
    /\ \E opens \in BOOLEAN, measuresNone \in BOOLEAN :
         IF ~opens
         THEN /\ ppc' = "commit"
              /\ outcome' = [outcome EXCEPT ![entryIdx].cause = "image"]
              /\ UNCHANGED <<mainVars, reported, coordsLeft, loopI, source_id, store>>
         ELSE IF name = None /\ ~measuresNone
         THEN /\ Raise("no_name")
              /\ UNCHANGED <<coordsLeft, loopI, source_id, store>>
         ELSE IF ~dbArg
         THEN /\ Raise("db_is_none")
              /\ UNCHANGED <<coordsLeft, loopI, source_id, store>>
         ELSE /\ store' = db_execute(store, SourceRow(entryIdx, NextRowId(store)))
              /\ source_id' = NextRowId(store)
              /\ coordsLeft' = get_text_locations(TextLocation)
              /\ loopI' = 0
              /\ ppc' = "render"
              /\ UNCHANGED <<mainVars, logVars>>
    /\ UNCHANGED <<metadata, coords, photoLocs, possible_names, name, conOpen>>
    /\ UNCHANGED <<cfgVars, files>>
    /\ UNCHANGED <<nameVars, resizeVars, fontVars, colorVars>>

\* One iteration of the loop of create_images, main.py:262-272: name.upper()
\* raises on None; create_image or the encoding of its result may raise;
\* the postcard is saved to out/ or inserted.
RenderPlacement ==
    /\ mpc = "photo" /\ ppc = "render"
    /\ coordsLeft # <<>>
    /\ \E renders \in BOOLEAN :
         IF name = None
         THEN /\ Raise("no_name")
              /\ UNCHANGED <<coordsLeft, loopI, store, files>>
         ELSE IF ~renders
         THEN /\ Raise("render")
              /\ UNCHANGED <<coordsLeft, loopI, store, files>>
         ELSE /\ IF ~dbArg
                 THEN /\ files' = files \cup {[photo |-> entryIdx,
                                                 name |-> <<outindex, loopI, name>>]}
                      /\ UNCHANGED store
                 ELSE /\ store' = db_execute(store,
                                PostcardRow(entryIdx, <<outindex, loopI, name>>,
                                            Head(coordsLeft), source_id))
                      /\ UNCHANGED files
              /\ coordsLeft' = Tail(coordsLeft)
              /\ loopI' = loopI + 1
              /\ ppc' = IF Tail(coordsLeft) = <<>> THEN "commit" ELSE "render"
              /\ UNCHANGED <<mainVars, logVars>>
    /\ UNCHANGED <<metadata, coords, photoLocs, possible_names, name, conOpen, source_id>>
    /\ UNCHANGED cfgVars
    /\ UNCHANGED <<nameVars, resizeVars, fontVars, colorVars>>

\* con.commit(); con.close(), main.py:288-289. `con` is bound only when db is
\* not None: otherwise the read of it raises UnboundLocalError.
Commit ==
    /\ mpc = "photo" /\ ppc = "commit"
    /\ IF conOpen
       THEN /\ store' = db_commit(store)
            /\ Return("none")
            /\ UNCHANGED reported
       ELSE /\ Raise("db_is_none")
            /\ UNCHANGED <<store, metadata, coords, photoLocs, possible_names, name,
                           coordsLeft, loopI, conOpen, source_id>>
    /\ UNCHANGED <<cfgVars, files>>
    /\ UNCHANGED <<nameVars, resizeVars, fontVars, colorVars>>

----------------------------------------------------------------------------
(* Specifications                                                           *)

Init == PipeStart /\ missRaises \in BOOLEAN /\ NamesIdle /\ ResizeIdle /\ FontIdle /\ ColorIdle
InitChoose == ChooseStart /\ missRaises = FALSE /\ ResizeIdle /\ FontIdle /\ ColorIdle /\ PipeIdle
InitNames == NamesStart /\ missRaises \in BOOLEAN /\ ResizeIdle /\ FontIdle /\ ColorIdle /\ PipeIdle
InitResize == ResizeStart /\ missRaises = FALSE /\ NamesIdle /\ FontIdle /\ ColorIdle /\ PipeIdle
InitFont == FontStart /\ missRaises = FALSE /\ NamesIdle /\ ResizeIdle /\ ColorIdle /\ PipeIdle
InitColor == ColorStart /\ missRaises = FALSE /\ NamesIdle /\ ResizeIdle /\ FontIdle /\ PipeIdle

Next ==
    \/ MainStart \/ CallDirect \/ NextEntry \/ MainExit
    \/ GetMetadata \/ GetCoordinates \/ Geocode \/ GetNames \/ ChooseName
    \/ CreateImages \/ RenderPlacement \/ Commit
NextChoose == ChooseField \/ ChooseFallOff
NextNames == AddLocation \/ GetNamesReturn \/ ChooseField \/ ChooseFallOff \/ SecondRun
NextResize == GetOutputSize \/ Rotate \/ Resize
NextFont == FontNext \/ FontReturn
NextColor == GetAverageColor \/ GetFontColor

Spec == Init /\ [][Next]_vars
SpecChoose == InitChoose /\ [][NextChoose]_vars
SpecNames == InitNames /\ [][NextNames]_vars
SpecResize == InitResize /\ [][NextResize]_vars
SpecFont == InitFont /\ [][NextFont]_vars
SpecColor == InitColor /\ [][NextColor]_vars

----------------------------------------------------------------------------
(* Properties                                                               *)

\* The value choose_name popped from a field's set, if it popped one.
Picked(f) == input[f] \ names[f]

\* choose_name went past field f without returning: the set was empty, or
\* held 3 or more values, or f is street and the popped value has a digit.
Skipped(f) ==
    \/ input[f] = {}
    \/ Cardinality(input[f]) >= 3
    \/ /\ f = "street"
       /\ Picked(f) # {}
       /\ \A v \in Picked(f) : contains_digit(v)

\* choose_name returned from the i-th field of the order of the claim.
Wins(order, i) ==
    /\ input[order[i]] # {}
    /\ Cardinality(input[order[i]]) < 3
    /\ Picked(order[i]) = {results[run]}
    /\ order[i] = "street" => ~contains_digit(results[run])
    /\ \A j \in 1..(i - 1) : Skipped(order[j])
    /\ \A j \in (i + 1)..Len(order) : names[order[j]] = input[order[j]]

ClaimedOrder ==
    <<"name", "street", "adminArea6", "adminArea5", "adminArea3", "adminArea4", "adminArea1">>

\* C1: when choose_name has finished, its result is the value popped from the
\* first field, in the order name, street, adminArea6, adminArea5,
\* adminArea3, adminArea4, adminArea1, whose set is non-empty, has fewer than
\* 3 values and (for street) whose popped value has no digit; every field
\* before it was skipped for one of these reasons and no field after it was
\* read; when every field is skipped the result is None.
C1_FirstQualifyingField ==
    npc = "done" =>
        \/ \E i \in 1..Len(ClaimedOrder) : Wins(ClaimedOrder, i)
        \/ /\ results[run] = None
           /\ \A i \in 1..Len(ClaimedOrder) : Skipped(ClaimedOrder[i])

\* name holds exactly 3 values and the result was taken from street.
C1_Witness ==
    /\ npc = "done"
    /\ Cardinality(input["name"]) = 3
    /\ Picked("street") = {results[run]}
    /\ results[run] \in input["street"]
    /\ ~contains_digit(results[run])

\* C7: two runs of get_names and choose_name on the same candidates, the
\* second reading them in another order, select the same name.
C7_SameSelection ==
    (npc = "done" /\ run = 2) => results[1] = results[2]

\* The values of field f over the locations, as the claim has them collected.
Collected(f) ==
    {locations[i][f] : i \in {k \in 1..Len(locations) :
                                f \in DOMAIN locations[k] /\ locations[k][f] # EmptyStr}}

\* C10: get_names never fails; no set ever holds None, an empty string or a
\* raw country or subdivision code; and once it has returned, every field
\* other than adminArea1 and adminArea3 holds all its values.
C10_LookupMissDropped ==
    /\ npc # "crashed"
    /\ \A f \in Fields : None \notin names[f] /\ EmptyStr \notin names[f]
    /\ names["adminArea1"] \cap {GB, ZZ} = {}
    /\ names["adminArea3"] \cap {ENG} = {}
    /\ (npc = "choose" /\ fieldIdx = 1) =>
           \A f \in Fields \ {"adminArea1", "adminArea3"} : input[f] = Collected(f)

\* C6: the image get_original_image returns covers the canvas.
C6_CanvasCovered ==
    rpc = "done" => (imgW >= canvasW /\ imgH >= canvasH)

\* The sizes below the forced stop at which the early exit fires.
FiresBelowStop == {s \in 20..148 : EarlyExit(s)}

C9_BoundaryIsDark ==
    cpc = "done" =>
        /\ text_secondary = rgb
        /\ rgb = <<255, 255, 255>> => text_primary = <<0, 0, 0>>
        /\ rgb = <<0, 0, 0>> => text_primary = <<255, 255, 255>>
        /\ rgb[1] + rgb[2] + rgb[3] = 384 => text_primary = <<255, 255, 255>>

\* C9 as amended: the sample is the secondary colour; the primary is white
\* when the mean of the channels is under 128 and black otherwise, so a
\* metric of exactly 128 gives black.
C9_BoundaryIsLight ==
    cpc = "done" =>
        /\ text_secondary = rgb
        /\ rgb = <<255, 255, 255>> => text_primary = <<0, 0, 0>>
        /\ rgb = <<0, 0, 0>> => text_primary = <<255, 255, 255>>
        /\ rgb[1] + rgb[2] + rgb[3] < 384 => text_primary = <<255, 255, 255>>
        /\ rgb[1] + rgb[2] + rgb[3] >= 384 => text_primary = <<0, 0, 0>>

\* A sample of unequal channels whose mean is exactly 128 has been decided.
C9_Witness ==
    /\ cpc = "done"
    /\ rgb[1] + rgb[2] + rgb[3] = 384
    /\ rgb[1] # rgb[2]
    /\ text_primary = <<0, 0, 0>>

\* The entries process_image has finished with, by return or by exception.
Finished(k) == outcome[k].status \in {"returned", "raised"}

\* What the sink shows of photo k: its committed rows and its files.
VisibleRows(k) == {r \in store.committed : r.photo = k}
VisibleFiles(k) == {f \in files : f.photo = k}

\* The placements asked for.
RequestedTags ==
    IF TextLocation \in {"NW", "NE", "SW", "SE"} THEN {TextLocation}
    ELSE {"NW", "NE", "SW", "SE"}

\* The store holds the source image of photo k and one postcard per
\* requested placement, tagged with it and referring to that source row.
StoredInFull(k) ==
    \E s \in VisibleRows(k) :
        /\ s.table = "source_images"
        /\ \A r \in VisibleRows(k) \ {s} :
               /\ r.table = "postcards"
               /\ r.source_image_id = s.id
               /\ r.text_alignment \in RequestedTags
        /\ \A t \in RequestedTags :
               Cardinality({r \in VisibleRows(k) : r.text_alignment = t}) = 1

\* out/ holds one file per requested placement of photo k.
SavedInFull(k) ==
    Cardinality(VisibleFiles(k)) = Cardinality(RequestedTags)

\* C2: with a database given, a photo for which choose_name returned None
\* is reported as failed by process_image, which returns, and nothing of it
\* is persisted.
C2_NoNameReported ==
    \A k \in 1..Len(entries) :
        (dbArg /\ Finished(k) /\ outcome[k].name = None) =>
            /\ outcome[k].status = "returned"
            /\ k \in reported
            /\ VisibleRows(k) = {} /\ VisibleFiles(k) = {}

\* The entries that are files, in enumeration order.
FileEntries == SelectSeq([k \in 1..Len(entries) |-> k], LAMBDA k : entries[k])

\* C3: in a batch run with a database, when main has ended and nothing went
\* wrong but the per-photo errors of the claim, every file of the
\* enumeration was passed to process_image, in enumeration order.
C3_BatchContinues ==
    ( /\ mode = "batch" /\ dbArg
      /\ mpc \in {"exit", "crashed"}
      /\ \A k \in 1..Len(entries) :
             outcome[k].cause \in {"none", "no_gps", "zero_denominator", "geocoding", "no_name"} )
        => passed = FileEntries

\* C4: once process_image has finished with a photo, the sink shows all of
\* it (the source image and every requested postcard) or nothing of it.
C4_AllOrNothing ==
    \A k \in 1..Len(entries) :
        Finished(k) =>
            \/ VisibleRows(k) = {} /\ VisibleFiles(k) = {}
            \/ StoredInFull(k) /\ VisibleFiles(k) = {}
            \/ SavedInFull(k) /\ VisibleRows(k) = {}

\* The render of the second of four placements raised: the source row and
\* the first postcard were written, and nothing of the photo is visible.
C4_Witness ==
    \E k \in 1..Len(entries) :
        /\ outcome[k].status = "raised"
        /\ outcome[k].cause = "render"
        /\ k = entryIdx
        /\ loopI = 1
        /\ Len(coordsLeft) = 3
        /\ Cardinality({r \in store.pending : r.photo = k}) = 2
        /\ VisibleRows(k) = {}

\* C5: a photo with GPS data whose name resolved, whose file opens as an
\* image and whose placements all render is persisted in full when
\* process_image has finished with it, in the database when one is given
\* and under out/ when none is.
C5_PersistedInFull ==
    \A k \in 1..Len(entries) :
        ( /\ Finished(k)
          /\ outcome[k].name \notin {Unset, None}
          /\ outcome[k].cause \notin {"image", "render"} )
            => IF dbArg THEN StoredInFull(k) ELSE SavedInFull(k)

============================================================================
